---- MODULE Spec2Model ----
\* A model of the ThorCam BLACS worker (labscript_devices/ThorCam/blacs_workers.py):
\* the Thorlab_Camera adapter, the SDK camera handle it drives, and the
\* acquisition loop (snap, grab, grab_multiple) with its abort flag.
EXTENDS Integers, Sequences, FiniteSets, TLC

VARIABLES
    camera,          \* self.camera: the SDK handle's properties and frame queue
    props,           \* self.props: the property bag get_attributes fills and returns
    abort,           \* self._abort_acquisition
    pc,              \* position of the worker inside snap / grab / grab_multiple
    caller,          \* who called grab: "snap" or "grab_multiple"
    n_images,        \* grab_multiple argument
    images,          \* grab_multiple argument: the caller's list
    images_entry,    \* the contents of images when grab_multiple was called
    i,               \* loop index of grab_multiple
    img,             \* local of grab
    calls,           \* SDK calls of the running operation, in order
    exc              \* exception the last finished call raised, or "none"

vars == <<camera, props, abort, pc, caller, n_images, images, images_entry, i, img, calls, exc>>

acq == <<pc, caller, n_images, images, images_entry, i, img, calls>>

----------------------------------------------------------------------------
\* Bounds of the model

MaxImages == 2      \* largest n_images passed to grab_multiple
MaxFail == 2        \* SDK exceptions raised inside one operation
MaxFrames == 3      \* frames the camera produces while armed once
MaxQueue == 1       \* frames waiting in the camera

\* Program constants

GainMax == 48
BlackLevelMax == 511

None == 0           \* Python None for the local img; frames are numbered from 1

operation_mode_dict == [SOFTWARE_TRIGGERED |-> 0, HARDWARE_TRIGGERED |-> 1, BULB |-> 2]

\* A requested black level may be a non-integer: requests are given in halves
\* (h stands for h/2).  int() truncates toward zero.
int(h) == IF h >= 0 THEN h \div 2 ELSE -((-h) \div 2)

Half(n) == 2 * n

----------------------------------------------------------------------------
\* The SDK handle

disarm(cam) == [cam EXCEPT !.is_armed = FALSE, !.triggered = FALSE, !.pending = <<>>]

arm(cam) == [cam EXCEPT !.is_armed = TRUE, !.triggered = FALSE, !.pending = <<>>, !.frame_count = 0]

disarm_if_armed(cam) == IF cam.is_armed THEN disarm(cam) ELSE cam

Ok(cam) == [camera |-> cam, exc |-> "none"]

Raise(cam, e) == [camera |-> cam, exc |-> e]

----------------------------------------------------------------------------
\* Property setters (pure: camera before -> camera after and the exception raised)

set_operation_mode(cam, operationMode) ==
    IF operationMode \in DOMAIN operation_mode_dict
    THEN Ok([cam EXCEPT !.operation_mode = operation_mode_dict[operationMode]])
    ELSE Raise(cam, "KeyError")

\* set_gain with its upper limit off by one
set_gain_off_by_one(cam, gain) ==
    IF gain > GainMax + 1 \/ gain < 0
    THEN Raise(cam, "ValueError")
    ELSE Ok([cam EXCEPT !.gain = gain])

set_gain(cam, gain) ==
    IF gain > GainMax \/ gain < 0
    THEN Raise(cam, "ValueError")
    ELSE Ok([cam EXCEPT !.gain = gain])

set_exposure(cam, exposureTime) == Ok([cam EXCEPT !.exposure_time_us = exposureTime])

set_blackLevel(cam, blackLevel) ==
    LET b == int(blackLevel)
    IN  IF b > BlackLevelMax \/ b < 0
        THEN Raise(cam, "ValueError")
        ELSE Ok([cam EXCEPT !.black_level = b])

set_attribute_item(cam, prop, vals) ==
    IF prop = "OperationMode" THEN set_operation_mode(cam, vals)
    ELSE IF prop = "Gain" THEN set_gain(cam, vals)
    ELSE IF prop = "ExposureTime" THEN set_exposure(cam, vals)
    ELSE IF prop = "BLackLevel" THEN set_blackLevel(cam, vals)
    ELSE Ok(cam)

RECURSIVE set_attributes_loop(_, _)
set_attributes_loop(cam, items) ==
    IF items = <<>> THEN Ok(cam)
    ELSE LET r == set_attribute_item(cam, Head(items)[1], Head(items)[2])
         IN  IF r.exc # "none" THEN r ELSE set_attributes_loop(r.camera, Tail(items))

set_attributes(cam, attr_dict) == set_attributes_loop(disarm_if_armed(cam), attr_dict)

get_attributes(cam) ==
    [p \in {"OperationMode", "Gain", "ExposureTime", "BLackLevel", "Width", "Height"} |->
        CASE p = "OperationMode" -> cam.operation_mode
          [] p = "Gain" -> cam.gain
          [] p = "ExposureTime" -> cam.exposure_time_us
          [] p = "BLackLevel" -> cam.black_level
          [] p = "Width" -> cam.image_width_pixels
          [] p = "Height" -> cam.image_height_pixels]

----------------------------------------------------------------------------
\* Inputs

GainInputs == {-1, 0, GainMax, GainMax + 1}

BlackLevelInputs ==
    {Half(-1), Half(0) - 1, Half(0), Half(BlackLevelMax), Half(BlackLevelMax) + 1, Half(BlackLevelMax + 1)}

ExposureInputs == {10, 20}

ModeInputs == {"SOFTWARE_TRIGGERED", "HARDWARE_TRIGGERED", "BULB", "CONTINUOUS"}

Items ==
    {<<"OperationMode", m>> : m \in ModeInputs}
    \cup {<<"Gain", g>> : g \in GainInputs}
    \cup {<<"ExposureTime", e>> : e \in ExposureInputs}
    \cup {<<"BLackLevel", b>> : b \in BlackLevelInputs}
    \cup {<<"BlackLevel", Half(BlackLevelMax)>>, <<"Width", 1>>, <<"Height", 1>>}

\* Items of the two-key dictionaries: for each key a value that is accepted
\* and, where there is one, a value that is refused
PairItems ==
    {<<"OperationMode", "BULB">>, <<"OperationMode", "CONTINUOUS">>,
     <<"Gain", GainMax>>, <<"Gain", GainMax + 1>>,
     <<"ExposureTime", 20>>,
     <<"BLackLevel", Half(BlackLevelMax) + 1>>, <<"BLackLevel", Half(BlackLevelMax + 1)>>,
     <<"BlackLevel", Half(BlackLevelMax)>>, <<"Width", 1>>}

AttrDicts ==
    {<<>>} \cup {<<a>> : a \in Items}
    \cup {d \in {<<a, b>> : a \in PairItems, b \in PairItems} : d[1][1] # d[2][1]}

\* The dictionaries the acquisition specification passes to set_attributes
ShotDicts ==
    { << <<"OperationMode", "BULB">>, <<"Gain", GainMax>>, <<"ExposureTime", 20>>,
         <<"BLackLevel", Half(BlackLevelMax)>> >>,
      << <<"Gain", GainMax + 1>> >> }

Sensor == [width |-> 4, height |-> 3]

InitCameras ==
    [operation_mode : {0, 1}, gain : {0}, exposure_time_us : {10}, black_level : {0},
     image_width_pixels : {Sensor.width}, image_height_pixels : {Sensor.height},
     is_armed : {FALSE}, frames_per_trigger_zero_for_unlimited : {0, 1},
     triggered : {FALSE}, pending : {<<>>}, frame_count : {0}]

EmptyDict == [p \in {} |-> 0]

----------------------------------------------------------------------------
\* Initial state: after Thorlab_Camera.__init__

Init ==
    /\ camera \in InitCameras
    /\ props = EmptyDict
    /\ abort = FALSE
    /\ pc = "idle"
    /\ caller = "none"
    /\ n_images = 0
    /\ images = <<>>
    /\ images_entry = <<>>
    /\ i = 0
    /\ img = None
    /\ calls = <<>>
    /\ exc = "none"

----------------------------------------------------------------------------
\* Calls that run to completion

call_get_attributes ==
    /\ pc = "idle"
    /\ props' = get_attributes(camera)
    /\ exc' = "none"
    /\ UNCHANGED <<camera, abort, acq>>

Finish(r) ==
    /\ camera' = r.camera
    /\ exc' = r.exc
    /\ UNCHANGED <<props, abort, acq>>

call_set_attributes(attr_dict) == pc = "idle" /\ Finish(set_attributes(camera, attr_dict))

call_set_gain(gain) == pc = "idle" /\ Finish(set_gain(camera, gain))

call_set_blackLevel(blackLevel) == pc = "idle" /\ Finish(set_blackLevel(camera, blackLevel))

call_set_exposure(exposureTime) == pc = "idle" /\ Finish(set_exposure(camera, exposureTime))

call_set_operation_mode(operationMode) ==
    pc = "idle" /\ Finish(set_operation_mode(camera, operationMode))


----------------------------------------------------------------------------
\* Acquisition

\* configure_acquisition that leaves the operation mode as it finds it
configure_acquisition_keeps_mode(cam, continuous) ==
    arm([cam EXCEPT !.frames_per_trigger_zero_for_unlimited = IF continuous THEN 0 ELSE 1])

configure_acquisition(cam, continuous) ==
    LET c1 == [cam EXCEPT !.frames_per_trigger_zero_for_unlimited = IF continuous THEN 0 ELSE 1]
    IN  arm(set_operation_mode(c1, "SOFTWARE_TRIGGERED").camera)

Raises == Len(SelectSeq(calls, LAMBDA c : c = "raise"))

Triggers == Len(SelectSeq(calls, LAMBDA c : c = "issue_software_trigger"))

ClearLocals ==
    /\ caller' = "none"
    /\ n_images' = 0
    /\ images' = <<>>
    /\ images_entry' = <<>>
    /\ i' = 0
    /\ img' = None
    /\ calls' = <<>>

\* grab_multiple without its except clause: the exception reaches the caller
Throw_propagates(log) ==
    /\ Raises < MaxFail
    /\ pc' = "idle"
    /\ exc' = "TLCameraError"
    /\ ClearLocals
    /\ UNCHANGED <<camera, props, abort>>

\* An exception leaves grab: grab_multiple catches it and goes round its
\* while loop again, snap lets it propagate to its caller.
Throw(log) ==
    /\ Raises < MaxFail
    /\ IF caller = "grab_multiple"
       THEN /\ pc' = "gm_check"
            /\ calls' = Append(log, "raise")
            /\ UNCHANGED <<camera, props, abort, caller, n_images, images, images_entry, i, img, exc>>
       ELSE /\ pc' = "idle"
            /\ exc' = "TLCameraError"
            /\ ClearLocals
            /\ UNCHANGED <<camera, props, abort>>

call_configure_acquisition(continuous) ==
    /\ pc = "idle"
    /\ \/ Finish(Ok(configure_acquisition(camera, continuous)))
       \/ /\ camera.is_armed
          /\ Finish(Raise([configure_acquisition(camera, continuous) EXCEPT
                              !.is_armed = camera.is_armed, !.triggered = camera.triggered,
                              !.pending = camera.pending, !.frame_count = camera.frame_count],
                          "TLCameraError"))

stop_acquisition == pc = "idle" /\ Finish(Ok(disarm(camera)))

abort_acquisition ==
    /\ abort' = TRUE
    /\ UNCHANGED <<camera, props, acq, exc>>

snap ==
    /\ pc = "idle"
    /\ camera' = configure_acquisition(disarm_if_armed(camera), FALSE)
    /\ calls' = (IF camera.is_armed THEN <<"disarm">> ELSE <<>>)
                \o <<"frames_per_trigger", "operation_mode", "arm">>
    /\ caller' = "snap"
    /\ pc' = "grab_trigger"
    /\ exc' = "none"
    /\ UNCHANGED <<props, abort, n_images, images, images_entry, i, img>>

grab_trigger ==
    /\ pc = "grab_trigger"
    /\ \/ /\ camera' = [camera EXCEPT !.triggered = camera.is_armed]
          /\ img' = None
          /\ calls' = Append(calls, "issue_software_trigger")
          /\ pc' = "grab_while"
          /\ UNCHANGED <<props, abort, caller, n_images, images, images_entry, i, exc>>
       \/ Throw(Append(calls, "issue_software_trigger"))

grab_while ==
    /\ pc = "grab_while"
    /\ pc' = IF img = None THEN "grab_poll" ELSE "grab_return"
    /\ UNCHANGED <<camera, props, abort, caller, n_images, images, images_entry, i, img, calls, exc>>

grab_poll ==
    /\ pc = "grab_poll"
    /\ \/ /\ camera.pending # <<>>
          /\ img' = Head(camera.pending)
          /\ camera' = [camera EXCEPT !.pending = Tail(camera.pending)]
          /\ calls' = Append(calls, "frame")
          /\ pc' = "grab_while"
          /\ UNCHANGED <<props, abort, caller, n_images, images, images_entry, i, exc>>
       \/ /\ camera.pending = <<>>
          /\ img' = None
          /\ pc' = "grab_while"
          /\ UNCHANGED <<camera, props, abort, caller, n_images, images, images_entry, i, calls, exc>>
       \/ Throw(calls)

grab_return ==
    /\ pc = "grab_return"
    /\ IF caller = "grab_multiple"
       THEN /\ images' = Append(images, img)
            /\ i' = i + 1
            /\ pc' = "gm_for"
       ELSE /\ pc' = "snap_stop"
            /\ UNCHANGED <<images, i>>
    /\ UNCHANGED <<camera, props, abort, caller, n_images, images_entry, img, calls, exc>>

snap_stop ==
    /\ pc = "snap_stop"
    /\ camera' = disarm(camera)
    /\ calls' = Append(calls, "disarm")
    /\ pc' = "snap_return"
    /\ UNCHANGED <<props, abort, caller, n_images, images, images_entry, i, img, exc>>

snap_return ==
    /\ pc = "snap_return"
    /\ pc' = "idle"
    /\ ClearLocals
    /\ UNCHANGED <<camera, props, abort, exc>>

EntryLists == {<<>>, <<None>>}

\* grab_multiple that resets the abort flag when it starts
grab_multiple_resets_flag(n, entry) ==
    /\ pc = "idle"
    /\ n_images' = n
    /\ images' = entry
    /\ images_entry' = entry
    /\ i' = 0
    /\ calls' = <<>>
    /\ caller' = "grab_multiple"
    /\ pc' = "gm_for"
    /\ exc' = "none"
    /\ abort' = FALSE
    /\ UNCHANGED <<camera, props, img>>

grab_multiple(n, entry) ==
    /\ pc = "idle"
    /\ n_images' = n
    /\ images' = entry
    /\ images_entry' = entry
    /\ i' = 0
    /\ calls' = <<>>
    /\ caller' = "grab_multiple"
    /\ pc' = "gm_for"
    /\ exc' = "none"
    /\ UNCHANGED <<camera, props, abort, img>>

\* the for loop running one iteration too many
gm_for_off_by_one ==
    /\ pc = "gm_for"
    /\ pc' = IF i <= n_images THEN "gm_check" ELSE "gm_end"
    /\ UNCHANGED <<camera, props, abort, caller, n_images, images, images_entry, i, img, calls, exc>>

gm_for ==
    /\ pc = "gm_for"
    /\ pc' = IF i < n_images THEN "gm_check" ELSE "gm_end"
    /\ UNCHANGED <<camera, props, abort, caller, n_images, images, images_entry, i, img, calls, exc>>

\* the abort check returning without clearing the flag
gm_check_keeps_flag ==
    /\ pc = "gm_check"
    /\ pc' = IF abort THEN "gm_aborted" ELSE "grab_trigger"
    /\ UNCHANGED <<camera, props, abort, caller, n_images, images, images_entry, i, img, calls, exc>>

gm_check ==
    /\ pc = "gm_check"
    /\ IF abort
       THEN /\ abort' = FALSE
            /\ pc' = "gm_aborted"
       ELSE /\ pc' = "grab_trigger"
            /\ UNCHANGED abort
    /\ UNCHANGED <<camera, props, caller, n_images, images, images_entry, i, img, calls, exc>>

gm_return ==
    /\ pc \in {"gm_end", "gm_aborted"}
    /\ pc' = "idle"
    /\ ClearLocals
    /\ UNCHANGED <<camera, props, abort, exc>>

\* The camera exposes a frame for an accepted trigger
frame_arrives ==
    /\ camera.is_armed
    /\ camera.triggered
    /\ camera.frame_count < MaxFrames
    /\ Len(camera.pending) < MaxQueue
    /\ camera' = [camera EXCEPT !.frame_count = @ + 1,
                                !.pending = Append(@, camera.frame_count + 1),
                                !.triggered = (camera.frames_per_trigger_zero_for_unlimited = 0)]
    /\ UNCHANGED <<props, abort, acq, exc>>

----------------------------------------------------------------------------
\* Specifications

WorkerStep ==
    \/ grab_trigger \/ grab_while \/ grab_poll \/ grab_return
    \/ snap_stop \/ snap_return
    \/ gm_for \/ gm_check \/ gm_return

Next ==
    \/ call_get_attributes
    \/ \E d \in ShotDicts : call_set_attributes(d)
    \/ \E c \in BOOLEAN : call_configure_acquisition(c)
    \/ stop_acquisition
    \/ abort_acquisition
    \/ snap
    \/ \E n \in 0..MaxImages, entry \in EntryLists : grab_multiple(n, entry)
    \/ WorkerStep
    \/ frame_arrives

Spec == Init /\ [][Next]_vars

\* The acquisition thread keeps running; the camera and the callers owe nothing.
FairSpec == Spec /\ WF_vars(WorkerStep)

NextAttr ==
    \/ call_get_attributes
    \/ \E d \in AttrDicts : call_set_attributes(d)
    \/ \E g \in GainInputs : call_set_gain(g)
    \/ \E b \in BlackLevelInputs : call_set_blackLevel(b)
    \/ \E e \in ExposureInputs : call_set_exposure(e)
    \/ \E m \in ModeInputs : call_set_operation_mode(m)
    \/ \E c \in BOOLEAN : call_configure_acquisition(c)
    \/ stop_acquisition

SpecAttr == Init /\ [][NextAttr]_vars

----------------------------------------------------------------------------
\* Properties

Frames == Len(SelectSeq(calls, LAMBDA c : c = "frame"))

GainInRange(g) == 0 <= g /\ g <= GainMax

\* Requested black levels are in halves
BlackLevelInRange(h) == Half(0) <= h /\ h <= Half(BlackLevelMax)

Appended == SubSeq(images, Len(images_entry) + 1, Len(images))

EntryKept ==
    /\ Len(images) >= Len(images_entry)
    /\ SubSeq(images, 1, Len(images_entry)) = images_entry

C1_GainStep ==
    /\ \A g \in GainInputs :
         call_set_gain(g) =>
            IF GainInRange(g)
            THEN exc' = "none" /\ camera'.gain = g
            ELSE exc' = "ValueError" /\ camera'.gain = camera.gain
    /\ \A d \in AttrDicts : \A k \in DOMAIN d :
         (d[k][1] = "Gain" /\ call_set_attributes(d)) =>
            /\ ~GainInRange(d[k][2]) => (exc' # "none" /\ camera'.gain = camera.gain)
            /\ exc' = "none" => camera'.gain = d[k][2]
            /\ (GainInRange(d[k][2]) /\ k = 1) => camera'.gain = d[k][2]
            /\ (~GainInRange(d[k][2]) /\ k = 1) => exc' = "ValueError"
    /\ camera'.gain # camera.gain => GainInRange(camera'.gain)

\* C1: set_gain, called directly or through set_attributes with key 'Gain',
\* raises and leaves the SDK gain unchanged when the requested gain is below 0
\* or above 48, and otherwise writes exactly the requested gain; the SDK gain
\* is in [0,48] whatever calls were made.
C1_GainGuard == [](GainInRange(camera.gain)) /\ [][C1_GainStep]_vars

C1_Witness == camera.gain = GainMax /\ exc = "ValueError"

C2_BlackLevelStep ==
    /\ \A b \in BlackLevelInputs :
         call_set_blackLevel(b) =>
            IF BlackLevelInRange(b)
            THEN exc' = "none"
            ELSE exc' = "ValueError" /\ camera'.black_level = camera.black_level
    /\ camera'.black_level \in 0..BlackLevelMax

\* C2: set_blackLevel raises and leaves the SDK black level unchanged whenever
\* the requested black level (possibly a non-integer) is outside [0,511], and
\* every black level written is an integer in [0,511].
C2_BlackLevelGuard == [][C2_BlackLevelStep]_vars

C3_AbortStep ==
    /\ (pc = "gm_check" /\ abort /\ pc' # pc) =>
          /\ pc' = "gm_aborted"
          /\ abort' = FALSE
          /\ images' = images
          /\ calls' = calls
          /\ camera' = camera
    /\ (pc = "gm_aborted" /\ pc' # pc) => pc' = "idle"
    /\ (pc = "gm_aborted" /\ pc' = pc) => (images' = images /\ calls' = calls)

\* C3: when grab_multiple finds the abort flag set at the start of a loop
\* iteration it clears the flag and returns at once, with no further trigger
\* and nothing more appended: images holds the entries it had on entry followed
\* by the frames grabbed so far, fewer than n_images of them.
C3_AbortShortCircuit ==
    /\ [](pc = "gm_aborted" =>
            /\ EntryKept
            /\ Len(Appended) = Frames
            /\ Frames = i
            /\ Frames \in 0..(n_images - 1))
    /\ [][C3_AbortStep]_vars

C3_Witness == pc = "gm_aborted" /\ Frames >= 1 /\ Triggers > Frames

\* C4: an abort set while grab_multiple polls for a frame is eventually
\* observed and grab_multiple returns, also when no frame ever arrives.
C4_PollInterruptible ==
    (caller = "grab_multiple" /\ pc \in {"grab_while", "grab_poll"} /\ abort /\ camera.is_armed)
        ~> (pc = "idle")

C5_RetryStep ==
    /\ (caller = "grab_multiple" /\ Raises' > Raises) =>
          /\ pc' = "gm_check"
          /\ images' = images
          /\ i' = i
          /\ exc' = "none"
    /\ (caller = "grab_multiple" /\ pc' = "idle") =>
          (pc \in {"gm_end", "gm_aborted"} /\ exc' = "none")
    /\ (pc = "gm_check" /\ ~abort /\ pc' # pc) =>
          (pc' = "grab_trigger" /\ i' = i /\ images' = images)

\* C5: an exception raised by grab never leaves grab_multiple: it appends
\* nothing, keeps the index, and is followed by the abort check and another
\* attempt for the same index; grab_multiple ends its loop only after
\* n_images successful grabs.
C5_ErrorsSwallowed ==
    /\ [](pc = "gm_end" => (Frames = n_images /\ i = n_images))
    /\ [](caller = "grab_multiple" => exc = "none")
    /\ [][C5_RetryStep]_vars

C5_Witness == pc = "gm_end" /\ Raises >= 1 /\ n_images >= 1

C6_GetAttributesStep ==
    call_get_attributes =>
        /\ DOMAIN props' = {"OperationMode", "Gain", "ExposureTime", "BlackLevel", "Width", "Height"}
        /\ props'["OperationMode"] = camera.operation_mode
        /\ props'["Gain"] = camera.gain
        /\ props'["ExposureTime"] = camera.exposure_time_us
        /\ props'["BlackLevel"] = camera.black_level
        /\ props'["Width"] = camera.image_width_pixels
        /\ props'["Height"] = camera.image_height_pixels

\* C6: get_attributes returns a bag with the keys OperationMode, Gain,
\* ExposureTime, BlackLevel, Width and Height, each the SDK's current value.
C6_GetAttributes == [][C6_GetAttributesStep]_vars

WrittenValue(cam, prop) ==
    CASE prop = "OperationMode" -> cam.operation_mode
      [] prop = "Gain" -> cam.gain
      [] prop = "ExposureTime" -> cam.exposure_time_us
      [] prop = "BlackLevel" -> cam.black_level

RequestedValue(item) ==
    CASE item[1] = "OperationMode" -> operation_mode_dict[item[2]]
      [] item[1] = "BlackLevel" -> int(item[2])
      [] OTHER -> item[2]

C7_SetAttributesStep ==
    \A d \in AttrDicts :
        (call_set_attributes(d) /\ exc' = "none") =>
            /\ ~camera'.is_armed
            /\ \A k \in DOMAIN d :
                 IF d[k][1] \in {"OperationMode", "Gain", "ExposureTime", "BlackLevel"}
                 THEN WrittenValue(camera', d[k][1]) = RequestedValue(d[k])
                 ELSE TRUE
            /\ (\A k \in DOMAIN d : d[k][1] \in {"Width", "Height"}) =>
                 camera' = disarm_if_armed(camera)

\* C7: when set_attributes returns, the SDK holds every in-range value given
\* for OperationMode, Gain, ExposureTime and BlackLevel; Width and Height are
\* ignored; and the camera is disarmed.
C7_WritesForwarded == [][C7_SetAttributesStep]_vars

SnapOrder ==
    <<"frames_per_trigger", "operation_mode", "arm", "issue_software_trigger", "frame", "disarm">>

C8_SnapStep ==
    /\ (caller' = "snap" \/ caller = "snap") =>
          /\ camera'.gain = camera.gain
          /\ camera'.exposure_time_us = camera.exposure_time_us
          /\ camera'.black_level = camera.black_level
    /\ (caller = "snap" /\ Triggers' > Triggers) => camera.is_armed
    /\ (caller' = "snap" /\ pc = "idle") =>
          /\ camera'.is_armed
          /\ camera'.frames_per_trigger_zero_for_unlimited = 1
          /\ camera'.operation_mode = operation_mode_dict["SOFTWARE_TRIGGERED"]
          /\ camera'.pending = <<>>

\* C8: snap disarms an armed camera, sets one frame per trigger and the
\* software-triggered mode, arms, issues one trigger, polls until a frame is
\* there and disarms; at its return the camera is disarmed, one trigger was
\* issued, while armed, the mode is SOFTWARE_TRIGGERED, and gain, exposure
\* and black level are what they were.
C8_SnapSequence ==
    /\ [](pc = "snap_return" =>
            /\ ~camera.is_armed
            /\ calls \in {SnapOrder, <<"disarm">> \o SnapOrder}
            /\ Triggers = 1
            /\ img # None
            /\ camera.operation_mode = operation_mode_dict["SOFTWARE_TRIGGERED"])
    /\ [][C8_SnapStep]_vars

C8_Witness ==
    /\ pc = "snap_return"
    /\ calls[1] = "disarm"
    /\ camera.gain = GainMax
    /\ camera.black_level = BlackLevelMax

C9_EmptyStep ==
    (pc = "gm_for" /\ n_images = 0 /\ pc' # pc) => (pc' = "gm_end" /\ abort' = abort)

\* C9: when grab_multiple ends its loop without having seen the abort flag,
\* images holds its entries on entry followed by exactly n_images frames in
\* the order the camera produced them, and the triggers issued number
\* n_images plus the failed attempts; with n_images = 0 it ends at once,
\* with no trigger and the abort flag untouched.
C9_GrabMultipleResult ==
    /\ [](pc = "gm_end" =>
            /\ EntryKept
            /\ Len(Appended) = n_images
            /\ Frames = n_images
            /\ \A k \in 1..Len(Appended) :
                 /\ Appended[k] # None
                 /\ k > 1 => Appended[k - 1] < Appended[k]
            /\ Triggers = n_images + Raises
            /\ n_images = 0 => calls = <<>>)
    /\ [][C9_EmptyStep]_vars

C9_Witness ==
    /\ pc = "gm_end"
    /\ n_images = MaxImages
    /\ Raises >= 1
    /\ images_entry # <<>>

C10_FlagStep ==
    /\ (abort /\ ~abort') => (pc = "gm_check" /\ pc' = "gm_aborted")
    /\ (pc = "gm_for" /\ i = 0 /\ n_images >= 1 /\ pc' # pc) => pc' = "gm_check"
    /\ (pc = "gm_check" /\ i = 0 /\ calls = <<>> /\ abort /\ pc' # pc) =>
          /\ pc' = "gm_aborted"
          /\ ~abort'
          /\ calls' = <<>>
          /\ images' = images_entry

\* C10: only grab_multiple's abort check clears the abort flag; a flag set
\* while no grab_multiple runs, or after the last abort check of a running
\* one, stays set, and the next grab_multiple with n_images >= 1 returns at
\* its first check with no trigger issued and nothing appended.
C10_StaleAbort == [][C10_FlagStep]_vars

C10_Witness == pc = "gm_aborted" /\ calls = <<>> /\ n_images >= 1 /\ props # EmptyDict

====
